---- MODULE Spec2Model ----
(***************************************************************************)
(* State-machine model of src/src/worker.ts: the Cloudflare Worker that    *)
(* gates callers with PROXY_KEY, loads a pool of Gemini keys (KV first,    *)
(* GEMINI_KEYS as fallback), and forwards each request upstream with       *)
(* sticky + weighted-random key selection and per-request failover.        *)
(*                                                                         *)
(* JavaScript strings are modelled as sequences of one-character strings,  *)
(* so that trim / startsWith / slice / split / charCodeAt are computed.    *)
(* `undefined` header values and an unset cooldownUntil are the empty      *)
(* sequence and 0 (the code tests both by truthiness).                     *)
(***************************************************************************)
EXTENDS Integers, Sequences, FiniteSets, TLC

VARIABLES
    env,          \* the Worker's Env: PROXY_KEY, GEMINI_KEYS, KEYPOOL binding
    kv,           \* the value stored under "pool" in the KEYPOOL namespace
    now,          \* Date.now()
    ticks,        \* how many times the clock has advanced
    pc,           \* per invocation: where fetch() is suspended
    req,          \* per invocation: the inbound Request
    pool,         \* per invocation: the PoolItem[] returned by loadPool
    stickyIndex,  \* per invocation: stickyIndex returned by loadPool
    triedIdx,     \* per invocation: triedIdx
    attempt,      \* per invocation: the loop counter
    lastErr,      \* per invocation: lastErr
    calls,        \* per invocation: the upstream fetch() calls issued so far
    replies,      \* per invocation: what the upstream answered to each call
    resp          \* per invocation: the Response returned to the caller

vars == <<env, kv, now, ticks, pc, req, pool, stickyIndex, triedIdx, attempt,
          lastErr, calls, replies, resp>>

(***************************************************************************)
(* Bounds of the model.                                                    *)
(***************************************************************************)
MaxTicks == 2
RandDen == 4

(***************************************************************************)
(* String helpers (String.prototype.trim / startsWith / slice / split).    *)
(***************************************************************************)
IsSpace(c) == c \in {" ", "\t"}

RECURSIVE TrimLeft(_)
TrimLeft(s) ==
    IF s = <<>> THEN <<>>
    ELSE IF IsSpace(Head(s)) THEN TrimLeft(Tail(s))
    ELSE s

RECURSIVE TrimRight(_)
TrimRight(s) ==
    IF s = <<>> THEN <<>>
    ELSE IF IsSpace(s[Len(s)]) THEN TrimRight(SubSeq(s, 1, Len(s) - 1))
    ELSE s

Trim(s) == TrimRight(TrimLeft(s))

StartsWith(s, p) == Len(s) >= Len(p) /\ SubSeq(s, 1, Len(p)) = p

Slice(s, k) == SubSeq(s, k + 1, Len(s))

\* s.split(","): the pieces between commas, empty pieces included.
RECURSIVE SplitFrom(_, _, _)
SplitFrom(s, i, cur) ==
    IF i > Len(s) THEN <<cur>>
    ELSE IF s[i] = "," THEN <<cur>> \o SplitFrom(s, i + 1, <<>>)
    ELSE SplitFrom(s, i + 1, Append(cur, s[i]))

Split(s) == SplitFrom(s, 1, <<>>)

Min(a, b) == IF a <= b THEN a ELSE b

Range(f) == {f[x] : x \in DOMAIN f}

(***************************************************************************)
(* Values.                                                                 *)
(***************************************************************************)
NoSticky == -1           \* stickyIndex === undefined

HeaderNames ==
    {"authorization", "x-goog-api-key", "x-api-key", "x-forwarded-for",
     "cf-connecting-ip", "content-type", "host", "cf-ipcountry", "cf-ray",
     "cf-visitor", "connection", "keep-alive"}

NoHeaders == [n \in HeaderNames |-> <<>>]

Bearer == <<"B", "e", "a", "r", "e", "r", " ">>       \* "Bearer "
AppJson == <<"application/json">>

NullErr ==
    [kind |-> "null", status |-> 0, hasBody |-> FALSE, bodyTag |-> "",
     bodyLen |-> 0, message |-> ""]

NoReq ==
    [method |-> "", path |-> <<>>, search |-> <<>>, hostname |-> <<>>,
     body |-> "", hdrs |-> NoHeaders]

NoResp ==
    [src |-> "none", status |-> 0, error |-> "", detail |-> NullErr,
     ok |-> FALSE, size |-> 0, usable |-> 0, ts |-> 0, bodyTag |-> "",
     bodyLen |-> 0]

(***************************************************************************)
(* checkProxyAuth(req, proxyKey)                                           *)
(***************************************************************************)
\* mutant: the "no secret configured" guard of line 114 is missing
checkProxyAuthNoGuard(hdrs, proxyKey) ==
    LET auth  == hdrs["authorization"]
        token == IF StartsWith(auth, Bearer) THEN Trim(Slice(auth, 7)) ELSE <<>>
        xg    == Trim(hdrs["x-goog-api-key"])
        xk    == Trim(hdrs["x-api-key"])
    IN  token = proxyKey \/ xg = proxyKey \/ xk = proxyKey

checkProxyAuth(hdrs, proxyKey) ==
    IF proxyKey = <<>> THEN FALSE
    ELSE
        LET auth  == hdrs["authorization"]
            token == IF StartsWith(auth, Bearer) THEN Trim(Slice(auth, 7))
                     ELSE <<>>
            xg    == Trim(hdrs["x-goog-api-key"])
            xk    == Trim(hdrs["x-api-key"])
        IN  token = proxyKey \/ xg = proxyKey \/ xk = proxyKey

(***************************************************************************)
(* forwardHeaders(req): copy, force Content-Type, delete the listed names. *)
(***************************************************************************)
ForwardDeleted ==
    {"authorization", "host", "cf-connecting-ip", "cf-ipcountry", "cf-ray",
     "cf-visitor", "connection", "keep-alive"}

forwardHeaders(hdrs) ==
    [n \in HeaderNames |->
        IF n \in ForwardDeleted THEN <<>>
        ELSE IF n = "content-type" THEN AppJson
        ELSE hdrs[n]]

(***************************************************************************)
(* hashStr(s): 32-bit FNV-1a.  The 32-bit word is kept as two 16-bit       *)
(* halves so that Math.imul's wrap-around is computed exactly.             *)
(***************************************************************************)
CharCode(c) ==
    CASE c = " " -> 32  [] c = "/" -> 47  [] c = "1" -> 49  [] c = "2" -> 50
      [] c = "3" -> 51  [] c = "B" -> 66  [] c = "a" -> 97  [] c = "b" -> 98
      [] c = "e" -> 101 [] c = "h" -> 104 [] c = "k" -> 107 [] c = "r" -> 114
      [] c = "s" -> 115 [] c = "x" -> 120 [] OTHER -> 63

RECURSIVE Xor(_, _)
Xor(a, b) ==
    IF a = 0 THEN b
    ELSE IF b = 0 THEN a
    ELSE (((a % 2) + (b % 2)) % 2) + 2 * Xor(a \div 2, b \div 2)

\* Math.imul(h, 16777619) kept to 32 bits; 16777619 = 256 * 2^16 + 403.
Imul(h) ==
    LET p == h.lo * 403
    IN  [hi |-> ((h.hi * 403) + (h.lo * 256) + (p \div 65536)) % 65536,
         lo |-> p % 65536]

RECURSIVE HashFrom(_, _, _)
HashFrom(s, i, h) ==
    IF i > Len(s) THEN h
    ELSE HashFrom(s, i + 1, Imul([hi |-> h.hi, lo |-> Xor(h.lo, CharCode(s[i]))]))

\* 2166136261 = 33052 * 2^16 + 40389
hashStr(s) == HashFrom(s, 1, [hi |-> 33052, lo |-> 40389])

\* mutant: the remainder is taken of the low 16 bits only
HashModLow(h, n) == h.lo % n

\* h % n for the unsigned 32-bit h
HashMod(h, n) == (((h.hi % n) * (65536 % n)) + (h.lo % n)) % n

(***************************************************************************)
(* Pool items, normalizePool, canUse, markCooldown.                        *)
(***************************************************************************)
\* mutant: entries are shared with the pools of the running invocations
PoolItemShared(k, w) ==
    [key |-> k, weight |-> w, cooldownUntil |-> 0,
     bad |-> \E j \in DOMAIN pool :
                \E m \in 1..Len(pool[j]) : pool[j][m].key = k /\ pool[j][m].bad]

\* mutant: a new entry takes over the cooldown that a running invocation
\* holds for the same key
PoolItemCooling(k, w) ==
    LET same == {<<j, m>> \in (DOMAIN pool) \X (1..3) :
                    /\ m <= Len(pool[j])
                    /\ pool[j][m].key = k
                    /\ pool[j][m].cooldownUntil # 0}
    IN  [key |-> k, weight |-> w,
         cooldownUntil |-> IF same = {} THEN 0
                           ELSE LET jm == CHOOSE x \in same : TRUE
                                IN  pool[jm[1]][jm[2]].cooldownUntil,
         bad |-> FALSE]

PoolItem(k, w) == [key |-> k, weight |-> w, cooldownUntil |-> 0, bad |-> FALSE]

\* the raw list entries are records with a key and, optionally, a weight
RawKey(it) == IF "key" \in DOMAIN it THEN it.key ELSE <<>>
RawWeight(it) == IF "weight" \in DOMAIN it THEN it.weight ELSE 1

RECURSIVE NormalizeFrom(_, _, _, _)
NormalizeFrom(list, i, seen, out) ==
    IF i > Len(list) THEN out
    ELSE
        LET k == Trim(RawKey(list[i]))
        IN  IF k = <<>> \/ k \in seen
            THEN NormalizeFrom(list, i + 1, seen, out)
            ELSE NormalizeFrom(list, i + 1, seen \cup {k},
                               Append(out, PoolItem(k, RawWeight(list[i]))))

\* mutant: blank keys are dropped but a repeated key is kept each time
normalizePoolNoDedupe(list) ==
    LET kept == SelectSeq(list, LAMBDA it : Trim(RawKey(it)) # <<>>)
    IN  [j \in 1..Len(kept) |->
            PoolItem(Trim(RawKey(kept[j])), RawWeight(kept[j]))]

normalizePool(list) == NormalizeFrom(list, 1, {}, <<>>)

\* mutant: the entry stays unusable at the instant its cooldown ends
canUseStrictlyAfter(it, t) ==
    IF it.bad THEN FALSE
    ELSE IF it.cooldownUntil # 0 /\ it.cooldownUntil >= t THEN FALSE
    ELSE TRUE

canUse(it, t) ==
    IF it.bad THEN FALSE
    ELSE IF it.cooldownUntil # 0 /\ it.cooldownUntil > t THEN FALSE
    ELSE TRUE

\* mutant: the duration is stored without Date.now()
markCooldownNoNow(it, t, ms) == [it EXCEPT !.cooldownUntil = ms]

markCooldown(it, t, ms) == [it EXCEPT !.cooldownUntil = t + ms]

\* mutant: the entry is not marked
markBadSkipped(it) == it

markBad(it) == [it EXCEPT !.bad = TRUE]

(***************************************************************************)
(* loadPool(env, u, req)                                                   *)
(***************************************************************************)
\* JSON.parse(raw).keys handed to normalizePool; a throw leaves pool = [].
KvPool(e, store) ==
    IF e.KEYPOOL /\ store.kind = "json" /\ store.hasKeys
    THEN normalizePool(store.keys)
    ELSE <<>>

SecretPool(e) ==
    normalizePool([i \in 1..Len(Split(e.GEMINI_KEYS)) |->
                      [key |-> Trim(Split(e.GEMINI_KEYS)[i]), weight |-> 1]])

FirstNonEmpty(a, b, c, d) ==
    IF a # <<>> THEN a ELSE IF b # <<>> THEN b ELSE IF c # <<>> THEN c ELSE d

StickySeed(r) ==
    FirstNonEmpty(r.hdrs["x-forwarded-for"], r.hdrs["cf-connecting-ip"],
                  r.hdrs["authorization"], r.hostname)

\* clear cooldowns that already lapsed
ClearExpired(p, t) ==
    [i \in 1..Len(p) |->
        IF p[i].cooldownUntil # 0 /\ p[i].cooldownUntil < t
        THEN [p[i] EXCEPT !.cooldownUntil = 0] ELSE p[i]]

\* mutant: the GEMINI_KEYS fallback of lines 164-168 is missing
loadPoolNoFallback(e, store, withReq, r, t) ==
    LET p      == KvPool(e, store)
        seed   == StickySeed(r)
        sticky == IF Len(p) > 0 /\ withReq /\ seed # <<>>
                  THEN HashMod(hashStr(seed), Len(p)) ELSE NoSticky
    IN  [pool |-> ClearExpired(p, t), stickyIndex |-> sticky]

\* mutant: the inline entries are added to those of the document
loadPoolMerged(e, store, withReq, r, t) ==
    LET p      == KvPool(e, store) \o
                  (IF e.GEMINI_KEYS # <<>> THEN SecretPool(e) ELSE <<>>)
        seed   == StickySeed(r)
        sticky == IF Len(p) > 0 /\ withReq /\ seed # <<>>
                  THEN HashMod(hashStr(seed), Len(p)) ELSE NoSticky
    IN  [pool |-> ClearExpired(p, t), stickyIndex |-> sticky]

loadPool(e, store, withReq, r, t) ==
    LET fromKv == KvPool(e, store)
        p      == IF Len(fromKv) = 0 /\ e.GEMINI_KEYS # <<>>
                  THEN SecretPool(e) ELSE fromKv
        seed   == StickySeed(r)
        sticky == IF Len(p) > 0 /\ withReq /\ seed # <<>>
                  THEN HashMod(hashStr(seed), Len(p)) ELSE NoSticky
    IN  [pool |-> ClearExpired(p, t), stickyIndex |-> sticky]

(***************************************************************************)
(* pickIndex(pool, sticky, tried).  Indices are 0-based as in the source;  *)
(* Math.random() is rnd / RandDen.                                         *)
(***************************************************************************)
Usable(p, tried, t) ==
    {i \in 0..(Len(p) - 1) : canUse(p[i + 1], t) /\ i \notin Range(tried)}

RECURSIVE SumWeights(_, _)
SumWeights(p, S) ==
    IF S = {} THEN 0
    ELSE LET i == CHOOSE x \in S : TRUE
         IN  p[i + 1].weight + SumWeights(p, S \ {i})

Smallest(S) == CHOOSE x \in S : \A y \in S : x <= y

\* mutant: the weighted draw finds no entry
WalkNone(p, S, r) == -1

\* the walk of lines 223-227 with r scaled by RandDen
RECURSIVE Walk(_, _, _)
Walk(p, S, r) ==
    LET i  == Smallest(S)
        r2 == r - p[i + 1].weight * RandDen
    IN  IF r2 <= 0 THEN i
        ELSE IF S = {i} THEN i
        ELSE Walk(p, S \ {i}, r2)

\* mutant: the sticky index is ignored, every selection is a weighted draw
pickIndexNoSticky(p, sticky, tried, t, rnd) ==
    LET usable == Usable(p, tried, t)
    IN  IF usable = {} THEN -1
        ELSE Walk(p, usable, rnd * SumWeights(p, usable))

\* mutant: without a sticky candidate the selector gives up
pickIndexStickyOnly(p, sticky, tried, t, rnd) ==
    IF sticky # NoSticky /\ sticky \notin Range(tried)
       /\ canUse(p[sticky + 1], t)
    THEN sticky
    ELSE -1

pickIndex(p, sticky, tried, t, rnd) ==
    LET usable == Usable(p, tried, t)
    IN  IF usable = {} THEN -1
        ELSE IF sticky # NoSticky /\ sticky \notin Range(tried)
                /\ canUse(p[sticky + 1], t)
        THEN sticky
        ELSE Walk(p, usable, rnd * SumWeights(p, usable))

(***************************************************************************)
(* safeClone / serializeErr / json                                         *)
(***************************************************************************)
BodyLimit == 2048

\* up: the upstream Response; readable: whether clone().text() succeeds
safeClone(up) ==
    IF up.readable
    THEN [kind |-> "resp", status |-> up.status, hasBody |-> TRUE,
          bodyTag |-> up.bodyTag, bodyLen |-> Min(up.bodyLen, BodyLimit),
          message |-> ""]
    ELSE [kind |-> "resp", status |-> up.status, hasBody |-> FALSE,
          bodyTag |-> "", bodyLen |-> 0, message |-> ""]

\* mutant: the caught error is dropped
ThrownDropped(up) == NullErr

\* the thrown value e of the catch clause
Thrown(up) ==
    [kind |-> "exc", status |-> 0, hasBody |-> FALSE, bodyTag |-> "",
     bodyLen |-> 0, message |-> up.message]

serializeErr(e) ==
    IF e.kind = "null" THEN NullErr
    ELSE IF e.status # 0 THEN e
    ELSE [kind |-> "msg", status |-> 0, hasBody |-> FALSE, bodyTag |-> "",
          bodyLen |-> 0,
          message |-> IF e.message # "" THEN e.message ELSE "Error"]

json(error, detail, status) ==
    [NoResp EXCEPT !.src = "proxy", !.status = status, !.error = error,
                   !.detail = detail]

\* line 25: new Response(null, { headers: cors(u, req) })
preflight == [NoResp EXCEPT !.src = "proxy", !.status = 200]

healthJson(p, t) ==
    LET usable == Cardinality({i \in 1..Len(p) : canUse(p[i], t)})
    IN  [NoResp EXCEPT !.src = "proxy", !.status = 200, !.ok = (usable > 0),
                       !.size = Len(p), !.usable = usable, !.ts = t]

passThrough(up) ==
    [NoResp EXCEPT !.src = "upstream", !.status = up.status,
                   !.bodyTag = up.bodyTag, !.bodyLen = up.bodyLen]

(***************************************************************************)
(* URLSearchParams.set(name, value): the first pair of that name takes the *)
(* value, later pairs of that name are removed; absent, a pair is appended.*)
(***************************************************************************)
HasParam(search, name) == \E i \in 1..Len(search) : search[i].n = name

FirstParam(search, name) ==
    Smallest({i \in 1..Len(search) : search[i].n = name})

RECURSIVE DropLater(_, _, _, _)
DropLater(search, name, first, i) ==
    IF i > Len(search) THEN <<>>
    ELSE IF search[i].n = name /\ i # first
    THEN DropLater(search, name, first, i + 1)
    ELSE <<search[i]>> \o DropLater(search, name, first, i + 1)

\* mutant: the pair is appended, pairs of that name stay
SetParamAppend(search, name, val) == Append(search, [n |-> name, v |-> val])

SetParam(search, name, val) ==
    IF HasParam(search, name)
    THEN LET f == FirstParam(search, name)
         IN  DropLater([search EXCEPT ![f] = [n |-> name, v |-> val]], name, f, 1)
    ELSE Append(search, [n |-> name, v |-> val])

\* the fetch(target, {method, headers, body}) of lines 69-78
upstreamCall(r, it) ==
    [method |-> r.method,
     path   |-> r.path,
     search |-> SetParam(r.search, "key", it.key),
     hdrs   |-> forwardHeaders(r.hdrs),
     body   |-> IF r.method \in {"GET", "HEAD"} THEN "" ELSE r.body]

(***************************************************************************)
(* The state machine.  One invocation of fetch() per element of Invs; each *)
(* action runs the handler from one await to the next.                     *)
(***************************************************************************)
Invs == {1, 2}

CooldownRateLimit == 30000
CooldownNetwork == 5000

TickDeltas == {CooldownNetwork, CooldownRateLimit - CooldownNetwork}

InitWith(Envs) ==
    /\ \E e \in Envs :
          /\ env = [PROXY_KEY |-> e.PROXY_KEY, GEMINI_KEYS |-> e.GEMINI_KEYS,
                    KEYPOOL |-> e.KEYPOOL]
          /\ kv = e.kv
    /\ now = 1000
    /\ ticks = 0
    /\ pc = [i \in Invs |-> "idle"]
    /\ req = [i \in Invs |-> NoReq]
    /\ pool = [i \in Invs |-> <<>>]
    /\ stickyIndex = [i \in Invs |-> NoSticky]
    /\ triedIdx = [i \in Invs |-> <<>>]
    /\ attempt = [i \in Invs |-> 0]
    /\ lastErr = [i \in Invs |-> NullErr]
    /\ calls = [i \in Invs |-> <<>>]
    /\ replies = [i \in Invs |-> <<>>]
    /\ resp = [i \in Invs |-> NoResp]

\* pathname.startsWith("/v1beta/"); a path is its sequence of segments
UnderPrefix(path) == Len(path) >= 2 /\ path[1] = "v1beta"

\* lines 22-51: up to the first await
Receive(i, r) ==
    /\ pc[i] = "idle"
    /\ req' = [req EXCEPT ![i] = r]
    /\ IF r.method = "OPTIONS"
       THEN /\ resp' = [resp EXCEPT ![i] = preflight]
            /\ pc' = [pc EXCEPT ![i] = "done"]
       ELSE IF r.path = <<"healthz">>
       THEN /\ pc' = [pc EXCEPT ![i] = "health"]
            /\ UNCHANGED resp
       ELSE IF ~UnderPrefix(r.path)
       THEN /\ resp' = [resp EXCEPT ![i] = json("Not Found", NullErr, 404)]
            /\ pc' = [pc EXCEPT ![i] = "done"]
       ELSE IF ~checkProxyAuth(r.hdrs, env.PROXY_KEY)
       THEN /\ resp' = [resp EXCEPT ![i] = json("Unauthorized", NullErr, 401)]
            /\ pc' = [pc EXCEPT ![i] = "done"]
       ELSE /\ pc' = [pc EXCEPT ![i] = "load"]
            /\ UNCHANGED resp
    /\ UNCHANGED <<env, kv, now, ticks, pool, stickyIndex, triedIdx, attempt,
                   lastErr, calls, replies>>

\* lines 28-32
Healthz(i) ==
    /\ pc[i] = "health"
    /\ LET lp == loadPool(env, kv, FALSE, req[i], now)
       IN  /\ pool' = [pool EXCEPT ![i] = lp.pool]
           /\ resp' = [resp EXCEPT ![i] = healthJson(lp.pool, now)]
    /\ pc' = [pc EXCEPT ![i] = "done"]
    /\ UNCHANGED <<env, kv, now, ticks, req, stickyIndex, triedIdx, attempt,
                   lastErr, calls, replies>>

\* lines 54-58
LoadPool(i) ==
    /\ pc[i] = "load"
    /\ LET lp == loadPool(env, kv, TRUE, req[i], now)
       IN  /\ pool' = [pool EXCEPT ![i] = lp.pool]
           /\ stickyIndex' = [stickyIndex EXCEPT ![i] = lp.stickyIndex]
           /\ IF Len(lp.pool) = 0
              THEN /\ resp' = [resp EXCEPT ![i] =
                                  json("No API keys configured", NullErr, 500)]
                   /\ pc' = [pc EXCEPT ![i] = "done"]
              ELSE /\ pc' = [pc EXCEPT ![i] = "pick"]
                   /\ UNCHANGED resp
    /\ lastErr' = [lastErr EXCEPT ![i] = NullErr]
    /\ triedIdx' = [triedIdx EXCEPT ![i] = <<>>]
    /\ attempt' = [attempt EXCEPT ![i] = 0]
    /\ UNCHANGED <<env, kv, now, ticks, req, calls, replies>>

\* line 107
allFailed(e) == json("All keys failed", serializeErr(e), 502)

\* lines 61-78: the loop test, pickIndex, and the call up to its await
Pick(i, rnd) ==
    /\ pc[i] = "pick"
    /\ LET idx == pickIndex(pool[i], stickyIndex[i], triedIdx[i], now, rnd)
       IN  IF attempt[i] >= Len(pool[i]) \/ idx = -1
           THEN /\ resp' = [resp EXCEPT ![i] = allFailed(lastErr[i])]
                /\ pc' = [pc EXCEPT ![i] = "done"]
                /\ UNCHANGED <<triedIdx, attempt, calls>>
           ELSE /\ triedIdx' = [triedIdx EXCEPT ![i] = Append(@, idx)]
                /\ IF ~canUse(pool[i][idx + 1], now)
                   THEN /\ attempt' = [attempt EXCEPT ![i] = @ + 1]
                        /\ UNCHANGED <<pc, calls>>
                   ELSE /\ calls' = [calls EXCEPT ![i] =
                                Append(@, upstreamCall(req[i], pool[i][idx + 1]))]
                        /\ pc' = [pc EXCEPT ![i] = "await"]
                        /\ UNCHANGED attempt
                /\ UNCHANGED resp
    /\ UNCHANGED <<env, kv, now, ticks, req, pool, stickyIndex, lastErr,
                   replies>>

\* mutant: 5xx is retried like 429
ClassifyRetry5xx(up) ==
    IF up.kind = "neterr" THEN "network"
    ELSE IF up.status = 429 \/ up.status >= 500 THEN "ratelimit"
    ELSE IF up.status = 401 \/ up.status = 403 THEN "rejected"
    ELSE "pass"

\* lines 81, 88, 99: how one attempt's outcome is classified
Classify(up) ==
    IF up.kind = "neterr" THEN "network"
    ELSE IF up.status = 429 THEN "ratelimit"
    ELSE IF up.status = 401 \/ up.status = 403 THEN "rejected"
    ELSE "pass"

\* mutant: only the first error is kept
assignLastErrOnce(prev, e) == IF prev.kind = "null" THEN e ELSE prev

\* lines 83, 90, 100: lastErr = ...
assignLastErr(prev, e) == e

\* lines 80-103: the upstream's answer up, or a thrown network error
Reply(i, up) ==
    /\ pc[i] = "await"
    /\ replies' = [replies EXCEPT ![i] = Append(@, up)]
    /\ LET idx == triedIdx[i][Len(triedIdx[i])]
           it  == pool[i][idx + 1]
           c   == Classify(up)
       IN  IF c = "pass"
           THEN /\ resp' = [resp EXCEPT ![i] = passThrough(up)]
                /\ pc' = [pc EXCEPT ![i] = "done"]
                /\ UNCHANGED <<pool, lastErr, attempt>>
           ELSE /\ pool' = [pool EXCEPT ![i][idx + 1] =
                      IF c = "ratelimit" THEN markCooldown(it, now, CooldownRateLimit)
                      ELSE IF c = "rejected" THEN markBad(it)
                      ELSE markCooldown(it, now, CooldownNetwork)]
                /\ lastErr' = [lastErr EXCEPT ![i] =
                      assignLastErr(@, IF c = "network" THEN Thrown(up)
                                       ELSE safeClone(up))]
                /\ attempt' = [attempt EXCEPT ![i] = @ + 1]
                /\ pc' = [pc EXCEPT ![i] = "pick"]
                /\ UNCHANGED resp
    /\ UNCHANGED <<env, kv, now, ticks, req, stickyIndex, triedIdx, calls>>

\* the invocation ends; its locals are gone
Finish(i) ==
    /\ pc[i] = "done"
    /\ pc' = [pc EXCEPT ![i] = "idle"]
    /\ req' = [req EXCEPT ![i] = NoReq]
    /\ pool' = [pool EXCEPT ![i] = <<>>]
    /\ stickyIndex' = [stickyIndex EXCEPT ![i] = NoSticky]
    /\ triedIdx' = [triedIdx EXCEPT ![i] = <<>>]
    /\ attempt' = [attempt EXCEPT ![i] = 0]
    /\ lastErr' = [lastErr EXCEPT ![i] = NullErr]
    /\ calls' = [calls EXCEPT ![i] = <<>>]
    /\ replies' = [replies EXCEPT ![i] = <<>>]
    /\ resp' = [resp EXCEPT ![i] = NoResp]
    /\ UNCHANGED <<env, kv, now, ticks>>

\* time passes
Tick(d, limit) ==
    /\ ticks < limit
    /\ now' = now + d
    /\ ticks' = ticks + 1
    /\ UNCHANGED <<env, kv, pc, req, pool, stickyIndex, triedIdx, attempt,
                   lastErr, calls, replies, resp>>

(***************************************************************************)
(* Inputs: configurations, requests and upstream behaviours.               *)
(***************************************************************************)
SK == <<"s", "k">>                       \* the configured proxy secret
SKPadded == <<" ", "s", "k">>            \* a secret stored with a leading blank
XX == <<"x", "x">>                       \* some other value
KA == <<"A">>
KB == <<"B">>
KC == <<"C">>

NoKv == [kind |-> "null", hasKeys |-> FALSE, keys |-> <<>>]
Garbage == [kind |-> "garbage", hasKeys |-> FALSE, keys |-> <<>>]
Doc(keys) == [kind |-> "json", hasKeys |-> TRUE, keys |-> keys]

Doc1 == Doc(<<[key |-> KA, weight |-> 1]>>)
Doc2 == Doc(<<[key |-> KA, weight |-> 1], [key |-> KB, weight |-> 2]>>)
Doc3 == Doc(<<[key |-> KA, weight |-> 1], [key |-> KB, weight |-> 2], [key |-> KC]>>)

Config(secret, binding, store, inline) ==
    [PROXY_KEY |-> secret, KEYPOOL |-> binding, kv |-> store,
     GEMINI_KEYS |-> inline]

Request(method, path, auth, xg, xk, xff) ==
    [method |-> method, path |-> path, search |-> <<>>, hostname |-> <<"h">>,
     body |-> IF method = "POST" THEN "payload" ELSE "",
     hdrs |-> [NoHeaders EXCEPT !["authorization"] = auth,
                                !["x-goog-api-key"] = xg,
                                !["x-api-key"] = xk,
                                !["x-forwarded-for"] = xff,
                                !["host"] = <<"h">>]]

Up(status, len, readable) ==
    [kind |-> "resp", status |-> status, bodyTag |-> "body", bodyLen |-> len,
     readable |-> readable, message |-> ""]

NetErr(msg) ==
    [kind |-> "neterr", status |-> 0, bodyTag |-> "", bodyLen |-> 0,
     readable |-> FALSE, message |-> msg]

ApiPath == <<"v1beta", "models">>

(***************************************************************************)
(* Spec: one invocation at a time (invocation 1 handles request after      *)
(* request), every classified upstream behaviour, pools of 1 to 3 keys.    *)
(***************************************************************************)
Envs == {Config(SK, TRUE, Doc3, <<>>), Config(SK, TRUE, Doc2, <<>>),
         Config(SK, TRUE, Doc1, <<>>),
         Config(SK, FALSE, NoKv, <<"A", ",", "B">>)}

Requests ==
    {Request("GET", <<"healthz">>, <<>>, <<>>, <<>>, <<>>),
     Request("POST", ApiPath, Bearer \o SK, <<>>, <<>>, <<"1">>),
     Request("POST", ApiPath, <<>>, SK, <<>>, <<"2">>),
     Request("GET", ApiPath, <<>>, <<>>, SK, <<>>),
     Request("POST", ApiPath, Bearer \o XX, <<>>, <<>>, <<"1">>)}

Ups == {Up(200, 10, TRUE), Up(500, 3000, TRUE), Up(429, 10, TRUE),
        Up(429, 3000, TRUE), Up(401, 10, TRUE), Up(403, 10, FALSE),
        NetErr("boom"), NetErr("")}

NextWith(I, Reqs, Outcomes, limit) ==
    \/ \E i \in I, r \in Reqs : Receive(i, r)
    \/ \E i \in I : Healthz(i)
    \/ \E i \in I : LoadPool(i)
    \/ \E i \in I, rnd \in 0..(RandDen - 1) : Pick(i, rnd)
    \/ \E i \in I, up \in Outcomes : Reply(i, up)
    \/ \E i \in I : Finish(i)
    \/ \E d \in TickDeltas : Tick(d, limit)

Init == InitWith(Envs)

Next == NextWith({1}, Requests, Ups, MaxTicks)

Spec == Init /\ [][Next]_vars

(***************************************************************************)
(* SpecGate: one invocation, every combination of the three credential     *)
(* channels, with and without PROXY_KEY, over empty and non-empty pools.   *)
(***************************************************************************)
GateTicks == 1

GateStores ==
    {[binding |-> TRUE, store |-> Doc2, inline |-> <<>>],
     [binding |-> TRUE, store |-> NoKv, inline |-> <<>>],
     [binding |-> FALSE, store |-> Doc2, inline |-> <<>>],
     [binding |-> FALSE, store |-> NoKv, inline |-> <<"A", ",", "B">>],
     [binding |-> TRUE, store |-> Garbage, inline |-> <<"A">>],
     [binding |-> TRUE, store |-> Garbage, inline |-> <<" ", ",", " ">>],
     [binding |-> TRUE, store |-> Doc(<<[key |-> <<" ">>, weight |-> 1]>>),
      inline |-> <<>>]}

GateEnvs ==
    {Config(secret, g.binding, g.store, g.inline) :
        secret \in {<<>>, SK, SKPadded}, g \in GateStores}

GateRequests ==
    {Request(m, path, auth, xg, xk, <<"1">>) :
        m \in {"GET", "POST", "OPTIONS"},
        path \in {ApiPath, <<"v1beta">>, <<"other", "x">>, <<"healthz">>},
        auth \in {<<>>, Bearer \o SK, Bearer \o <<" ">> \o SK, Bearer \o XX, SK},
        xg \in {<<>>, SK, XX},
        xk \in {<<>>, SK, XX}}

GateUps == {Up(200, 10, TRUE), Up(429, 10, TRUE)}

InitGate == InitWith(GateEnvs)

NextGate == NextWith({1}, GateRequests, GateUps, GateTicks)

SpecGate == InitGate /\ [][NextGate]_vars

(***************************************************************************)
(* SpecConc: two invocations running concurrently over one configuration.  *)
(***************************************************************************)
ConcTicks == 1

ConcEnvs == {Config(SK, TRUE, Doc3, <<>>)}

ConcRequests ==
    {Request("GET", <<"healthz">>, <<>>, <<>>, <<>>, <<>>),
     Request("POST", ApiPath, Bearer \o SK, <<>>, <<>>, <<"1">>)}

ConcUps == {Up(200, 10, TRUE), Up(429, 10, TRUE), Up(401, 10, TRUE)}

InitConc == InitWith(ConcEnvs)

NextConc == NextWith(Invs, ConcRequests, ConcUps, ConcTicks)

SpecConc == InitConc /\ [][NextConc]_vars

(***************************************************************************)
(* SpecLoad: one invocation over every shape of the two key sources:       *)
(* padded, blank, missing and repeated keys, weights of 0, below 0 and     *)
(* left out, an empty key list, no document, an unparsable document.       *)
(***************************************************************************)
LoadTicks == 1

\* {"keys":[{"key":" A ","weight":2},{"key":" "},{"key":"A","weight":3},
\*          {"weight":1},{"key":"B"},{"key":"B ","weight":2}]}
DocMessy ==
    Doc(<<[key |-> <<" ", "A", " ">>, weight |-> 2], [key |-> <<" ">>],
          [key |-> KA, weight |-> 3], [weight |-> 1], [key |-> KB],
          [key |-> <<"B", " ">>, weight |-> 2]>>)

\* {"keys":[{"key":"A","weight":0},{"key":"B","weight":-2},{"key":"C"}]}
DocWeights ==
    Doc(<<[key |-> KA, weight |-> 0], [key |-> KB, weight |-> -2],
          [key |-> KC]>>)

\* {"keys":[]} and {"keys":[{"key":" "},{"key":""}]}
DocEmpty == Doc(<<>>)
DocBlank == Doc(<<[key |-> <<" ">>], [key |-> <<>>, weight |-> 1]>>)

\* {"other":1}: parses, obj.keys is undefined and normalizePool throws
DocNoKeys == [kind |-> "json", hasKeys |-> FALSE, keys |-> <<>>]

LoadDocs == {NoKv, Garbage, DocNoKeys, DocEmpty, DocBlank, DocMessy,
             DocWeights, Doc2}

\* "", " a , ,a,b", "b,a" and "A"
LoadInlines ==
    {<<>>, <<" ", "a", " ", ",", " ", ",", "a", ",", "b">>,
     <<"b", ",", "a">>, <<"A">>}

LoadEnvs ==
    {Config(SK, binding, store, inline) :
        binding \in BOOLEAN, store \in LoadDocs, inline \in LoadInlines}

LoadRequests ==
    {Request("GET", <<"healthz">>, <<>>, <<>>, <<>>, <<>>),
     Request("POST", ApiPath, Bearer \o SK, <<>>, <<>>, <<"1">>)}

LoadUps == {Up(200, 10, TRUE), Up(429, 10, TRUE)}

InitLoad == InitWith(LoadEnvs)

NextLoad == NextWith({1}, LoadRequests, LoadUps, LoadTicks)

SpecLoad == InitLoad /\ [][NextLoad]_vars

(***************************************************************************)
(* SpecKv: two invocations run while the operator rewrites or deletes the  *)
(* pool document (wrangler kv key put / delete), so that pools of          *)
(* different sizes are in use at once; the requests carry every kind of    *)
(* sticky seed.                                                            *)
(***************************************************************************)
KvTicks == 1

KvDocs == {NoKv, Doc1, Doc2, Doc3}

\* the operator puts or deletes the value of "pool" in the KEYPOOL namespace
PutPool(d) ==
    /\ kv # d
    /\ kv' = d
    /\ UNCHANGED <<env, now, ticks, pc, req, pool, stickyIndex, triedIdx,
                   attempt, lastErr, calls, replies, resp>>

KvEnvs == {Config(SK, TRUE, d, <<>>) : d \in KvDocs}

\* seeds "1" (x-forwarded-for, also ahead of cf-connecting-ip), "2", "3"
\* (cf-connecting-ip), "Bearer sk" (authorization) and "h" (hostname)
KvRequests ==
    {Request("GET", <<"healthz">>, <<>>, <<>>, <<>>, <<>>),
     Request("POST", ApiPath, Bearer \o SK, <<>>, <<>>, <<"1">>),
     [Request("POST", ApiPath, Bearer \o SK, <<>>, <<>>, <<"1">>)
         EXCEPT !.hdrs["cf-connecting-ip"] = <<"3">>],
     Request("POST", ApiPath, <<>>, SK, <<>>, <<"2">>),
     [Request("POST", ApiPath, Bearer \o SK, <<>>, <<>>, <<>>)
         EXCEPT !.hdrs["cf-connecting-ip"] = <<"3">>],
     Request("POST", ApiPath, Bearer \o SK, <<>>, <<>>, <<>>),
     Request("GET", ApiPath, <<>>, <<>>, SK, <<>>)}

\* the sticky index is fixed before the first call: one outcome is enough
KvUps == {Up(200, 10, TRUE)}

InitKv == InitWith(KvEnvs)

NextKv ==
    \/ NextWith(Invs, KvRequests, KvUps, KvTicks)
    \/ \E d \in KvDocs : PutPool(d)

SpecKv == InitKv /\ [][NextKv]_vars

(***************************************************************************)
(* SpecHealth: /healthz asked while another invocation is forwarding and   *)
(* meets every kind of failure, over a pool of two, no pool at all, and    *)
(* an inline pool behind an unparsable document.                           *)
(***************************************************************************)
HealthTicks == 1

HealthEnvs ==
    {Config(SK, TRUE, Doc2, <<>>), Config(SK, TRUE, NoKv, <<>>),
     Config(SK, TRUE, Garbage, <<"A", ",", "B">>)}

HealthRequests ==
    {Request("GET", <<"healthz">>, <<>>, <<>>, <<>>, <<>>),
     Request("POST", ApiPath, Bearer \o SK, <<>>, <<>>, <<"1">>)}

HealthUps == {Up(200, 10, TRUE), Up(429, 10, TRUE), Up(403, 10, FALSE),
              NetErr("boom")}

InitHealth == InitWith(HealthEnvs)

NextHealth == NextWith(Invs, HealthRequests, HealthUps, HealthTicks)

SpecHealth == InitHealth /\ [][NextHealth]_vars

(***************************************************************************)
(* SpecUrl: one invocation, requests of several methods and paths whose    *)
(* query strings hold no, one or two key parameters among others.          *)
(***************************************************************************)
UrlTicks == 1

Param(n, v) == [n |-> n, v |-> v]

\* "", "?alt=s", "?key=x", "?key=x&alt=s&key=A&v=1"
UrlSearches ==
    {<<>>,
     <<Param("alt", <<"s">>)>>,
     <<Param("key", <<"x">>)>>,
     <<Param("key", <<"x">>), Param("alt", <<"s">>), Param("key", KA),
       Param("v", <<"1">>)>>}

UrlEnvs == {Config(SK, TRUE, Doc2, <<>>)}

\* GET and HEAD requests have no body; POST and PUT carry one
UrlRequests ==
    {Request("GET", <<"healthz">>, <<>>, <<>>, <<>>, <<>>)} \cup
    {[Request(m, path, Bearer \o SK, <<>>, <<>>, <<"1">>)
         EXCEPT !.search = q,
                !.body = IF m \in {"GET", "HEAD"} THEN "" ELSE "payload"] :
        m \in {"GET", "HEAD", "POST", "PUT"},
        path \in {ApiPath, <<"v1beta", "models", "x">>},
        q \in UrlSearches}

UrlUps == {Up(200, 10, TRUE), Up(429, 10, TRUE)}

InitUrl == InitWith(UrlEnvs)

NextUrl == NextWith({1}, UrlRequests, UrlUps, UrlTicks)

SpecUrl == InitUrl /\ [][NextUrl]_vars

(***************************************************************************)
(* Vocabulary of the properties.                                           *)
(***************************************************************************)
Last(q) == q[Len(q)]

Spaces(n) == [j \in 1..n |-> " "]

\* one of the three channels carries the secret: "Bearer", blanks, secret
\* in Authorization, or the bare secret in x-goog-api-key or x-api-key.
\* A header value never begins or ends with a blank, so a credential never
\* does either.
Presents(r, secret) ==
    /\ secret # <<>> /\ Head(secret) # " " /\ Last(secret) # " "
    /\ \/ \E n \in 0..2 :
             r.hdrs["authorization"] = Bearer \o Spaces(n) \o secret
       \/ r.hdrs["x-goog-api-key"] = secret
       \/ r.hdrs["x-api-key"] = secret

Authorized(i) == Presents(req[i], env.PROXY_KEY)

\* invocation i is handling a non-OPTIONS request under the proxy prefix
Gated(i) ==
    /\ pc[i] # "idle"
    /\ req[i].method # "OPTIONS"
    /\ Len(req[i].path) >= 2 /\ req[i].path[1] = "v1beta"

ByProxy(i, status, error) ==
    /\ pc[i] = "done"
    /\ resp[i].src = "proxy"
    /\ resp[i].status = status
    /\ resp[i].error = error

\* the keys the configuration holds: the durable document's when it has
\* any, else the inline list's
ConfiguredKeys ==
    LET doc    == IF env.KEYPOOL /\ kv.kind = "json" /\ kv.hasKeys
                  THEN {Trim(RawKey(kv.keys[j])) : j \in 1..Len(kv.keys)} \ {<<>>}
                  ELSE {}
        inline == {Trim(x) : x \in Range(Split(env.GEMINI_KEYS))} \ {<<>>}
    IN  IF doc # {} THEN doc ELSE inline

SecretHeaders == {"authorization", "x-goog-api-key", "x-api-key"}

(***************************************************************************)
(* C1: a non-OPTIONS request under the prefix is answered 401 with no      *)
(* upstream call when no secret is configured or no channel carries the    *)
(* configured secret; a match on any one channel passes the gate.          *)
(***************************************************************************)
C1_AuthGate ==
    \A i \in Invs :
        Gated(i) =>
            IF Authorized(i)
            THEN ~(pc[i] = "done" /\ resp[i].src = "proxy" /\ resp[i].status = 401)
            ELSE /\ ByProxy(i, 401, "Unauthorized")
                 /\ calls[i] = <<>>
                 /\ replies[i] = <<>>

C1_Witness ==
    \E i \in Invs :
        /\ Gated(i)
        /\ env.PROXY_KEY = SK
        /\ req[i].hdrs["authorization"] = Bearer \o XX
        /\ req[i].hdrs["x-api-key"] = XX
        /\ ByProxy(i, 401, "Unauthorized")
        /\ calls[i] = <<>>

(***************************************************************************)
(* C2: no upstream call carries any of the three headers through which     *)
(* the caller may present the proxy secret.                                *)
(***************************************************************************)
C2_SecretHeadersStripped ==
    \A i \in Invs :
        \A k \in 1..Len(calls[i]) :
            \A n \in SecretHeaders : calls[i][k].hdrs[n] = <<>>

(***************************************************************************)
(* C8: an authorized request under the prefix with an empty pool is        *)
(* answered 500 "No API keys configured" with no upstream call; the proxy  *)
(* itself never answers 500 when the pool is non-empty; an unauthorized    *)
(* request is answered 401 whether or not the pool is empty.               *)
(***************************************************************************)
C8_EmptyPool ==
    \A i \in Invs :
        /\ (Gated(i) /\ Authorized(i) /\ ConfiguredKeys = {} /\ pc[i] = "done")
              => /\ ByProxy(i, 500, "No API keys configured")
                 /\ calls[i] = <<>>
        /\ (pc[i] = "done" /\ resp[i].src = "proxy" /\ resp[i].status = 500)
              => ConfiguredKeys = {} /\ pool[i] = <<>>
        /\ (Gated(i) /\ ~Authorized(i)) => ByProxy(i, 401, "Unauthorized")

C8_Witness ==
    \E i \in Invs :
        /\ Gated(i) /\ Authorized(i)
        /\ env.GEMINI_KEYS # <<>> /\ ConfiguredKeys = {}
        /\ ByProxy(i, 500, "No API keys configured")
        /\ calls[i] = <<>>

(***************************************************************************)
(* Vocabulary of the failover properties.                                  *)
(***************************************************************************)
\* the value of the key parameter of an upstream call's URL
CallKey(c) == c.search[CHOOSE j \in 1..Len(c.search) : c.search[j].n = "key"].v

\* a retryable failure: 429, 401, 403 or a network error
Failure(up) == up.kind = "neterr" \/ up.status \in {429, 401, 403}

\* positions (1-based) of the entries that are untried and usable now
UntriedUsable(i) ==
    {j \in 1..Len(pool[i]) :
        /\ (j - 1) \notin Range(triedIdx[i])
        /\ ~pool[i][j].bad
        /\ (pool[i][j].cooldownUntil = 0 \/ pool[i][j].cooldownUntil <= now)}

\* this step is invocation i receiving the answer to its pending call
Replied(i) == Len(replies'[i]) = Len(replies[i]) + 1

\* this step is invocation i issuing an upstream call
Called(i) == Len(calls'[i]) = Len(calls[i]) + 1

\* position of the pool entry the k-th call of invocation i was made with
EntryOfCall(i, k) ==
    CHOOSE j \in 1..Len(pool[i]) : pool[i][j].key = CallKey(calls[i][k])

(***************************************************************************)
(* C3: the first upstream reply whose status is outside {429, 401, 403}    *)
(* ends the loop: its status is returned, no further call is made, and the *)
(* number of calls is the number of preceding failures plus one.           *)
(***************************************************************************)
C3_PassThroughEndsLoop ==
    \A i \in Invs :
        /\ \A k \in 1..Len(replies[i]) :
              ~Failure(replies[i][k]) =>
                  /\ k = Len(replies[i])
                  /\ \A m \in 1..(k - 1) : Failure(replies[i][m])
                  /\ Len(calls[i]) = (k - 1) + 1
                  /\ pc[i] = "done"
                  /\ resp[i].src = "upstream"
                  /\ resp[i].status = replies[i][k].status
        /\ (pc[i] = "done" /\ resp[i].src = "upstream") =>
              /\ replies[i] # <<>>
              /\ ~Failure(Last(replies[i]))

C3_Witness ==
    \E i \in Invs :
        /\ Len(pool[i]) = 2
        /\ Len(replies[i]) = 2
        /\ replies[i][1].status = 429
        /\ replies[i][2].status = 200
        /\ Len(calls[i]) = 2
        /\ CallKey(calls[i][1]) # CallKey(calls[i][2])
        /\ pc[i] = "done" /\ resp[i].src = "upstream" /\ resp[i].status = 200

(***************************************************************************)
(* C4: when the upstream answers 429 for an entry, the entry is put on a   *)
(* 30-second cooldown, the reply becomes the last error, no later call of  *)
(* the request uses that entry, and the loop goes on with an untried       *)
(* usable entry when there is one.                                         *)
(***************************************************************************)
C4_RateLimitCooldown ==
    [][\A i \in Invs :
          /\ (Replied(i) /\ Last(replies'[i]).status = 429) =>
                LET j == EntryOfCall(i, Len(calls[i]))
                IN  /\ pool'[i][j].cooldownUntil = now + 30000
                    /\ \A m \in 1..Len(pool[i]) : m # j => pool'[i][m] = pool[i][m]
                    /\ lastErr'[i].kind = "resp" /\ lastErr'[i].status = 429
                    /\ pc'[i] = "pick" /\ resp'[i] = resp[i]
          /\ Called(i) =>
                /\ \A k \in 1..Len(replies[i]) :
                      replies[i][k].status = 429 =>
                          CallKey(Last(calls'[i])) # CallKey(calls[i][k])
                /\ \E j \in UntriedUsable(i) :
                      pool[i][j].key = CallKey(Last(calls'[i]))
          /\ (pc[i] = "pick" /\ replies[i] # <<>> /\ Last(replies[i]).status = 429
              /\ UntriedUsable(i) # {} /\ pc'[i] # pc[i]) => Called(i)
      ]_vars

C4_Witness ==
    \E i \in Invs :
        /\ Len(replies[i]) = 1 /\ replies[i][1].status = 429
        /\ Len(calls[i]) = 2 /\ pc[i] = "await"
        /\ pool[i][EntryOfCall(i, 1)].cooldownUntil = now + 30000
        /\ EntryOfCall(i, 2) # EntryOfCall(i, 1)
        /\ lastErr[i].status = 429

(***************************************************************************)
(* C5: when the upstream answers 401 or 403 for an entry, the entry is     *)
(* marked disabled and stays so until the request ends, it is not selected *)
(* again, and the loop goes on instead of returning the 401/403.           *)
(***************************************************************************)
C5_RejectedDisabled ==
    \A i \in Invs :
        /\ \A k \in 1..Len(replies[i]) :
              (replies[i][k].kind = "resp" /\ replies[i][k].status \in {401, 403}) =>
                  /\ pool[i][EntryOfCall(i, k)].bad
                  /\ \A m \in 1..Len(calls[i]) :
                        m # k => CallKey(calls[i][m]) # CallKey(calls[i][k])
                  /\ \A m \in 1..Len(triedIdx[i]) :
                        m # k => triedIdx[i][m] + 1 # EntryOfCall(i, k)
                  /\ k = Len(replies[i]) =>
                        \/ pc[i] = "pick"
                        \/ pc[i] = "await" /\ Len(calls[i]) = k + 1
                        \/ ByProxy(i, 502, "All keys failed")
        /\ (pc[i] = "done" /\ resp[i].src = "upstream") =>
              resp[i].status \notin {401, 403}

C5_Witness ==
    \E i \in Invs :
        /\ Len(replies[i]) = 2
        /\ replies[i][1].status = 403 /\ replies[i][2].status = 200
        /\ pool[i][EntryOfCall(i, 1)].bad
        /\ pc[i] = "done" /\ resp[i].status = 200
        /\ now > 1000

(***************************************************************************)
(* C6: a network-level failure of an upstream call does not reach the      *)
(* caller: the error becomes the last error, the entry is put on a         *)
(* 5-second cooldown, and the loop goes on with the next attempt.          *)
(***************************************************************************)
C6_NetworkFailureAbsorbed ==
    [][\A i \in Invs :
          /\ (Replied(i) /\ Last(replies'[i]).kind = "neterr") =>
                LET j == EntryOfCall(i, Len(calls[i]))
                IN  /\ pool'[i][j].cooldownUntil = now + 5000
                    /\ ~pool'[i][j].bad
                    /\ lastErr'[i].kind = "exc"
                    /\ lastErr'[i].message = Last(replies'[i]).message
                    /\ pc'[i] = "pick" /\ resp'[i] = resp[i]
          /\ (pc[i] = "pick" /\ replies[i] # <<>> /\ Last(replies[i]).kind = "neterr"
              /\ pc'[i] # pc[i]) =>
                IF UntriedUsable(i) # {}
                THEN Called(i)
                ELSE /\ pc'[i] = "done"
                     /\ resp'[i].src = "proxy" /\ resp'[i].status = 502
                     /\ resp'[i].detail.kind = "msg"
      ]_vars

C6_Witness ==
    \E i \in Invs :
        /\ Len(replies[i]) = 1 /\ replies[i][1].kind = "neterr"
        /\ Len(calls[i]) = 2 /\ pc[i] = "await"
        /\ pool[i][EntryOfCall(i, 1)].cooldownUntil = now + 5000
        /\ lastErr[i].kind = "exc" /\ lastErr[i].message = "boom"

(***************************************************************************)
(* C7: when every attempt of an authorized request over a non-empty pool   *)
(* fails (429, 401, 403, network), the answer is 502 "All keys failed" and *)
(* its detail is that of the last attempt: its status and body cut to 2048 *)
(* characters (the status alone when the body could not be read), or the   *)
(* message of a network error.                                             *)
(***************************************************************************)
DescribesReply(d, up) ==
    IF up.kind = "neterr"
    THEN /\ d.kind = "msg"
         /\ d.status = 0
         /\ d.message = (IF up.message # "" THEN up.message ELSE "Error")
    ELSE /\ d.kind = "resp"
         /\ d.status = up.status
         /\ d.hasBody = up.readable
         /\ up.readable =>
               /\ d.bodyTag = up.bodyTag
               /\ d.bodyLen = (IF up.bodyLen <= 2048 THEN up.bodyLen ELSE 2048)

C7_AllFailedDetail ==
    \A i \in Invs :
        /\ (pc[i] = "done" /\ replies[i] # <<>>
            /\ \A k \in 1..Len(replies[i]) : Failure(replies[i][k])) =>
              /\ ByProxy(i, 502, "All keys failed")
              /\ DescribesReply(resp[i].detail, Last(replies[i]))
        /\ (pc[i] = "done" /\ resp[i].src = "proxy" /\ resp[i].status = 502) =>
              /\ replies[i] # <<>>
              /\ \A k \in 1..Len(replies[i]) : Failure(replies[i][k])

C7_Witness ==
    \E i \in Invs :
        /\ Len(replies[i]) = 3
        /\ replies[i][1].status = 401
        /\ replies[i][2].kind = "neterr"
        /\ replies[i][3].status = 429 /\ replies[i][3].bodyLen = 3000
        /\ ByProxy(i, 502, "All keys failed")
        /\ resp[i].detail.status = 429 /\ resp[i].detail.bodyLen = 2048

(***************************************************************************)
(* C9: a classified failure seen by one invocation changes only that       *)
(* invocation's pool entries; the durable store is never written; every    *)
(* other invocation, concurrent or later, starts from a pool whose entries *)
(* are all usable, and its first selection is the sticky entry whatever    *)
(* the first invocation has seen.                                          *)
(***************************************************************************)
C9_FailuresStayLocal ==
    [][/\ kv' = kv
       /\ env' = env
       /\ \A i \in Invs :
             /\ (Replied(i) /\ Failure(Last(replies'[i]))) =>
                   /\ pool'[i] # pool[i]
                   /\ \A j \in Invs \ {i} :
                         /\ pool'[j] = pool[j]
                         /\ lastErr'[j] = lastErr[j]
                         /\ triedIdx'[j] = triedIdx[j]
             /\ (pc[i] = "load" /\ pc'[i] = "pick") =>
                   /\ Len(pool'[i]) = Cardinality(ConfiguredKeys)
                   /\ \A m \in 1..Len(pool'[i]) :
                         ~pool'[i][m].bad /\ pool'[i][m].cooldownUntil = 0
             /\ (Called(i) /\ calls[i] = <<>>) =>
                   CallKey(Last(calls'[i])) = pool[i][stickyIndex[i] + 1].key
      ]_vars

C9_Witness ==
    \E i \in Invs : \E j \in Invs \ {i} :
        /\ pc[j] = "await" /\ Len(replies[j]) = 2
        /\ \E m \in 1..Len(pool[j]) : pool[j][m].bad
        /\ \E m \in 1..Len(pool[j]) : pool[j][m].cooldownUntil > now
        /\ pc[i] = "await" /\ replies[i] = <<>> /\ Len(calls[i]) = 1
        /\ \A m \in 1..Len(pool[i]) :
              ~pool[i][m].bad /\ pool[i][m].cooldownUntil = 0
        /\ CallKey(calls[i][1]) = CallKey(calls[j][1])

(***************************************************************************)
(* C10: GET /healthz reports size = number of pool entries, usable =       *)
(* number of entries neither disabled nor within an unexpired cooldown,    *)
(* ok = (usable > 0); a pool of 3 with one entry cooling is reported as    *)
(* {ok: true, size: 3, usable: 2}.  The entries' cooldowns and disabled    *)
(* flags are those held by the invocation that is forwarding.              *)
(***************************************************************************)
UsableCount(p) ==
    Cardinality({m \in 1..Len(p) :
        ~p[m].bad /\ (p[m].cooldownUntil = 0 \/ p[m].cooldownUntil <= now)})

C10_HealthzCountsUsable ==
    \A i \in Invs : \A j \in Invs \ {i} :
        (/\ pc[i] = "done" /\ req[i].path = <<"healthz">>
         /\ req[i].method # "OPTIONS" /\ resp[i].ts = now
         /\ pc[j] \in {"pick", "await"}) =>
            /\ resp[i].size = Len(pool[j])
            /\ resp[i].usable = UsableCount(pool[j])
            /\ resp[i].ok = (UsableCount(pool[j]) > 0)

(***************************************************************************)
(* C11: whenever the selector runs with a sticky index that is untried and *)
(* whose entry is usable, the index it selects is the sticky one, whatever *)
(* the weights and the random draw; so the first upstream call of every    *)
(* forwarded request goes to the sticky entry, and an index that has been  *)
(* tried, the sticky one included, is never selected again in the request. *)
(***************************************************************************)
\* this step is invocation i pushing a selected index on triedIdx
Selected(i) == Len(triedIdx'[i]) = Len(triedIdx[i]) + 1

StickyOpen(i) ==
    /\ stickyIndex[i] # NoSticky
    /\ stickyIndex[i] \notin Range(triedIdx[i])
    /\ (stickyIndex[i] + 1) \in UntriedUsable(i)

C11_StickyFirst ==
    [][\A i \in Invs :
          /\ (pc[i] = "pick" /\ pc'[i] # "pick" /\ StickyOpen(i)) =>
                /\ Selected(i)
                /\ Last(triedIdx'[i]) = stickyIndex[i]
          /\ (Called(i) /\ calls[i] = <<>>) =>
                /\ stickyIndex[i] # NoSticky
                /\ triedIdx'[i] = <<stickyIndex[i]>>
                /\ CallKey(Last(calls'[i])) = pool[i][stickyIndex[i] + 1].key
          /\ (Selected(i) /\ stickyIndex[i] \in Range(triedIdx[i])) =>
                Last(triedIdx'[i]) # stickyIndex[i]
      ]_vars

\* a second call went out after the sticky entry, the lighter one of a
\* pool of two, was tried first
C11_Witness ==
    \E i \in Invs :
        /\ pc[i] = "await"
        /\ Len(pool[i]) = 2
        /\ Len(triedIdx[i]) = 2
        /\ triedIdx[i][1] = stickyIndex[i]
        /\ \E m \in 1..2 : pool[i][m].weight > pool[i][stickyIndex[i] + 1].weight
        /\ triedIdx[i][2] # stickyIndex[i]

(***************************************************************************)
(* Vocabulary of the loader properties.                                    *)
(***************************************************************************)
\* this step is invocation i loading its pool (for /healthz or to forward)
Loads(i) == pc[i] \in {"load", "health"} /\ pc'[i] # pc[i]

\* the entries of the durable document, when the binding exists and the
\* document is there and parses to an object with a key list
DocList ==
    IF env.KEYPOOL /\ kv.kind = "json" /\ kv.hasKeys THEN kv.keys ELSE <<>>

\* the pieces of the inline comma-separated list, each of weight 1
InlineList ==
    IF env.GEMINI_KEYS = <<>> THEN <<>>
    ELSE [j \in 1..Len(Split(env.GEMINI_KEYS)) |->
             [key |-> Split(env.GEMINI_KEYS)[j], weight |-> 1]]

\* the key of a source entry with the blanks around it removed
Stripped(it) == Trim(IF "key" \in DOMAIN it THEN it.key ELSE <<>>)

FirstAt(src, k) == Smallest({j \in 1..Len(src) : Stripped(src[j]) = k})

\* pool p is source list src with its keys trimmed, the blank ones dropped,
\* and of equal keys only the first entry kept, in the order of src
NormalOf(p, src) ==
    /\ \A j \in 1..Len(p) :
          /\ p[j].key # <<>>
          /\ Head(p[j].key) # " " /\ Last(p[j].key) # " "
    /\ \A a, b \in 1..Len(p) : a # b => p[a].key # p[b].key
    /\ {p[j].key : j \in 1..Len(p)} =
          {Stripped(src[j]) : j \in 1..Len(src)} \ {<<>>}
    /\ \A a, b \in 1..Len(p) :
          a < b => FirstAt(src, p[a].key) < FirstAt(src, p[b].key)

(***************************************************************************)
(* C12: every pool the loader produces, from the durable document or from  *)
(* the inline list, has keys that are trimmed, non-empty and pairwise      *)
(* distinct; of equal keys the first entry is the one kept, and the kept   *)
(* entries stand in the order of their source.                             *)
(***************************************************************************)
C12_PoolNormalized ==
    [][\A i \in Invs :
          Loads(i) =>
             \E src \in {DocList, InlineList} :
                /\ NormalOf(pool'[i], src)
                /\ \A j \in 1..Len(pool'[i]) :
                      LET it == src[FirstAt(src, pool'[i][j].key)]
                      IN  "weight" \in DOMAIN it =>
                             pool'[i][j].weight = it.weight
      ]_vars

\* a pool of two loaded from a document of six entries with padded, blank,
\* missing and repeated keys
C12_Witness ==
    \E i \in Invs :
        /\ pc[i] = "pick"
        /\ DocList = DocMessy.keys
        /\ Len(pool[i]) = 2
        /\ pool[i][1].key = KA /\ pool[i][1].weight = 2
        /\ pool[i][2].key = KB

(***************************************************************************)
(* C13: every entry of every loaded pool has an integer weight of at least *)
(* 1, whatever the durable document holds (weight 0, a negative weight or  *)
(* none), so the weights of the usable untried entries of a pool that has  *)
(* any add up to more than 0.                                              *)
(***************************************************************************)
C13_WeightsAtLeastOne ==
    \A i \in Invs :
        /\ \A j \in 1..Len(pool[i]) :
              pool[i][j].weight \in Nat /\ pool[i][j].weight >= 1
        /\ (pc[i] = "pick" /\ UntriedUsable(i) # {}) =>
              SumWeights(pool[i], {j - 1 : j \in UntriedUsable(i)}) > 0

(***************************************************************************)
(* Vocabulary of C14: where a pool comes from.                             *)
(***************************************************************************)
\* the durable document is there / parses to an object with a key list
DocPresent == env.KEYPOOL /\ kv.kind # "null"
DocParses == kv.kind = "json" /\ kv.hasKeys

\* the source list holds a key that is not blank
HoldsKey(src) == \E j \in 1..Len(src) : Stripped(src[j]) # <<>>

\* p is the normalized document, each entry with the document's weight or 1
FromDoc(p) ==
    /\ NormalOf(p, DocList)
    /\ \A j \in 1..Len(p) :
          LET it == DocList[FirstAt(DocList, p[j].key)]
          IN  p[j].weight = IF "weight" \in DOMAIN it THEN it.weight ELSE 1

\* p is the normalized inline list, every entry of weight 1
FromInline(p) ==
    /\ NormalOf(p, InlineList)
    /\ \A j \in 1..Len(p) : p[j].weight = 1

(***************************************************************************)
(* C14 as stated: the loader takes the pool from the durable document when *)
(* it is present and parses; it uses the inline list, as weight-1 entries, *)
(* only on parse failure or absence of the document; the pool is empty     *)
(* when both are absent or empty; entries of the two sources never mix.    *)
(***************************************************************************)
C14_InlineOnlyOnFailure ==
    [][\A i \in Invs :
          Loads(i) =>
             IF DocPresent /\ DocParses
             THEN FromDoc(pool'[i])
             ELSE FromInline(pool'[i])
      ]_vars

(***************************************************************************)
(* C14 amended: the loader takes the pool from the durable document when   *)
(* it is present, parses and holds a non-blank key; in every other case    *)
(* (no binding, no document, parse failure, or a document without any      *)
(* non-blank key) it uses the inline list, as weight-1 entries; the pool   *)
(* is empty when neither source holds a key; entries of the two sources    *)
(* never mix.                                                              *)
(***************************************************************************)
C14_InlineWhenDocYieldsNone ==
    [][\A i \in Invs :
          Loads(i) =>
             /\ IF HoldsKey(DocList)
                THEN FromDoc(pool'[i])
                ELSE FromInline(pool'[i])
             /\ (~HoldsKey(DocList) /\ ~HoldsKey(InlineList)) => pool'[i] = <<>>
      ]_vars

\* a document that parses and holds only blank keys, and a pool taken from
\* the inline list " a , ,a,b"
C14_Witness ==
    \E i \in Invs :
        /\ pc[i] = "pick"
        /\ DocPresent /\ DocParses /\ kv = DocBlank
        /\ Len(pool[i]) = 2
        /\ pool[i][1].key = <<"a">> /\ pool[i][2].key = <<"b">>
        /\ pool[i][1].weight = 1 /\ pool[i][2].weight = 1

(***************************************************************************)
(* C15: in every request the retry loop makes at most len(pool)            *)
(* selections; no index is selected twice; every selected index lies in    *)
(* 0..len(pool)-1 and was usable and untried when it was selected; and the *)
(* selector returns none exactly when no usable untried index remains.     *)
(***************************************************************************)
C15_LoopInvariant ==
    [][\A i \in Invs :
          /\ Len(triedIdx[i]) <= Len(pool[i])
          /\ \A a, b \in 1..Len(triedIdx[i]) :
                a # b => triedIdx[i][a] # triedIdx[i][b]
          /\ \A a \in 1..Len(triedIdx[i]) :
                triedIdx[i][a] \in 0..(Len(pool[i]) - 1)
          /\ Selected(i) =>
                /\ pc[i] = "pick"
                /\ (Last(triedIdx'[i]) + 1) \in UntriedUsable(i)
                /\ SubSeq(triedIdx'[i], 1, Len(triedIdx[i])) = triedIdx[i]
          /\ (pc[i] = "pick" /\ pc'[i] # "pick") =>
                (Selected(i) <=> UntriedUsable(i) # {})
      ]_vars

\* a pool of three whose three entries were selected one after the other,
\* and a fourth selection that found none
C15_Witness ==
    \E i \in Invs :
        /\ Len(pool[i]) = 3
        /\ Len(triedIdx[i]) = 3
        /\ {triedIdx[i][a] : a \in 1..3} = {0, 1, 2}
        /\ ByProxy(i, 502, "All keys failed")

(***************************************************************************)
(* C16: an entry is usable at time now iff it is not disabled and its      *)
(* cooldownUntil is unset or not later than now.  An entry put on cooldown *)
(* at time t for d ms is unusable from t until just before t + d and       *)
(* usable from t + d on, nothing resetting it as time passes; a disabled   *)
(* entry stays disabled and is unusable at every time.                     *)
(***************************************************************************)
C16_UsableIffNotDisabledNotCooling ==
    [][\A i \in Invs :
          /\ \A m \in 1..Len(pool[i]) :
                LET it == pool[i][m]
                IN  /\ canUse(it, now) <=>
                          (~it.bad /\ (it.cooldownUntil = 0 \/ it.cooldownUntil <= now))
                    /\ it.bad => \A d \in {0} \cup TickDeltas : ~canUse(it, now + d)
                    /\ (it.bad /\ pc'[i] # "idle") =>
                          (Len(pool'[i]) >= m /\ pool'[i][m].bad)
          /\ (Replied(i) /\ Failure(Last(replies'[i]))
                /\ Last(replies'[i]).status \notin {401, 403}) =>
                LET it == pool'[i][Last(triedIdx[i]) + 1]
                    d  == IF Last(replies'[i]).status = 429
                          THEN CooldownRateLimit ELSE CooldownNetwork
                IN  /\ it.cooldownUntil = now + d
                    /\ ~canUse(it, now) /\ ~canUse(it, now + d - 1)
                    /\ canUse(it, now + d)
          /\ now' # now => pool' = pool
      ]_vars

\* an entry that was put on cooldown for 30 s when the clock stood at its
\* initial value, at the instant the cooldown ends: usable, still carrying
\* its cooldownUntil
C16_Witness ==
    \E i \in Invs : \E m \in 1..Len(pool[i]) :
        /\ pc[i] \in {"pick", "await"}
        /\ ~pool[i][m].bad
        /\ pool[i][m].cooldownUntil = now
        /\ now = 1000 + CooldownRateLimit
        /\ (m - 1) \in Range(triedIdx[i])
        /\ canUse(pool[i][m], now)

(***************************************************************************)
(* Vocabulary of C17: the sticky seed and its index.                       *)
(***************************************************************************)
\* the request's seed: x-forwarded-for, else cf-connecting-ip, else
\* authorization, else the host name
SeedOf(r) ==
    IF r.hdrs["x-forwarded-for"] # <<>> THEN r.hdrs["x-forwarded-for"]
    ELSE IF r.hdrs["cf-connecting-ip"] # <<>> THEN r.hdrs["cf-connecting-ip"]
    ELSE IF r.hdrs["authorization"] # <<>> THEN r.hdrs["authorization"]
    ELSE r.hostname

\* FNV-1a (32 bit) of the seeds in use, reduced modulo 1, 2 and 3:
\*   "1" -> 873244444, "2" -> 923577301, "3" -> 906799682,
\*   "h" -> 3977000791, "Bearer sk" -> 727975958
StickyOf(seed, size) ==
    CASE seed = <<"1">> -> <<0, 0, 1>>[size]
      [] seed = <<"2">> -> <<0, 1, 1>>[size]
      [] seed = <<"3">> -> <<0, 0, 2>>[size]
      [] seed = <<"h">> -> <<0, 1, 1>>[size]
      [] seed = Bearer \o SK -> <<0, 0, 2>>[size]

\* invocation i has loaded a non-empty pool and is forwarding
Forwarding(i) == pc[i] \in {"pick", "await"}

(***************************************************************************)
(* C17 amended: the sticky index equals the 32-bit hash of the sticky seed *)
(* modulo the pool size; it lies in 0..len(pool)-1; it is the same across  *)
(* repeated computations for the same seed and pool size.  When the pool   *)
(* size changes the index is the hash modulo the new size, which may be    *)
(* the same index as before.                                               *)
(***************************************************************************)
C17_StickyDeterministic ==
    /\ \A i \in Invs :
          Forwarding(i) =>
             /\ stickyIndex[i] = StickyOf(SeedOf(req[i]), Len(pool[i]))
             /\ stickyIndex[i] \in 0..(Len(pool[i]) - 1)
    /\ \A i, j \in Invs :
          (/\ Forwarding(i) /\ Forwarding(j)
           /\ SeedOf(req[i]) = SeedOf(req[j])
           /\ Len(pool[i]) = Len(pool[j])) =>
              stickyIndex[i] = stickyIndex[j]

(***************************************************************************)
(* C17 as stated: the sticky index equals the 32-bit hash of the sticky    *)
(* seed modulo the pool size; it lies in 0..len(pool)-1; it is the same    *)
(* across repeated computations for the same seed and pool size; and it    *)
(* changes if the pool size changes.                                       *)
(***************************************************************************)
C17_StickyChangesWithSize ==
    /\ C17_StickyDeterministic
    /\ \A i, j \in Invs :
          (/\ Forwarding(i) /\ Forwarding(j)
           /\ SeedOf(req[i]) = SeedOf(req[j])
           /\ Len(pool[i]) # Len(pool[j])) =>
              stickyIndex[i] # stickyIndex[j]

\* two different requests of seed "1" in flight over pools of sizes 2 and
\* 3, with sticky indices 0 and 1
C17_Witness ==
    \E i \in Invs : \E j \in Invs \ {i} :
        /\ Forwarding(i) /\ Forwarding(j)
        /\ SeedOf(req[i]) = <<"1">> /\ SeedOf(req[j]) = <<"1">>
        /\ req[i] # req[j]
        /\ Len(pool[i]) = 2 /\ Len(pool[j]) = 3
        /\ stickyIndex[i] = 0 /\ stickyIndex[j] = 1

(***************************************************************************)
(* C18: failover is complete.  The 502 "All keys failed" answer is given   *)
(* only after every entry of the pool was the target of exactly one        *)
(* upstream call and every one of those calls ended in 429, 401, 403 or a  *)
(* network failure; a request one of whose calls got any other answer ends *)
(* with that answer passed through, not with the proxy's 502; and every    *)
(* selected entry is called (the re-check after the selection never skips).*)
(***************************************************************************)
C18_FailoverComplete ==
    [][\A i \in Invs :
          /\ ByProxy(i, 502, "All keys failed") =>
                /\ Authorized(i) /\ pool[i] # <<>>
                /\ Len(calls[i]) = Len(pool[i])
                /\ Len(replies[i]) = Len(calls[i])
                /\ \A m \in 1..Len(pool[i]) :
                      Cardinality({k \in 1..Len(calls[i]) :
                          CallKey(calls[i][k]) = pool[i][m].key}) = 1
                /\ \A k \in 1..Len(replies[i]) : Failure(replies[i][k])
          /\ (pc[i] = "done" /\ \E k \in 1..Len(replies[i]) :
                                    ~Failure(replies[i][k])) =>
                /\ resp[i].src = "upstream"
                /\ resp[i].status = Last(replies[i]).status
                /\ ~Failure(Last(replies[i]))
          /\ Selected(i) => Called(i)
      ]_vars

\* 502 after three calls, one to each entry of a pool of three, that ended
\* in a network failure, a 403 and a 429
C18_Witness ==
    \E i \in Invs :
        /\ ByProxy(i, 502, "All keys failed")
        /\ Len(pool[i]) = 3 /\ Len(calls[i]) = 3
        /\ {CallKey(calls[i][k]) : k \in 1..3} = {KA, KB, KC}
        /\ replies[i][1].kind = "neterr"
        /\ replies[i][2].status = 403
        /\ replies[i][3].status = 429

NonKey(search) == SelectSeq(search, LAMBDA q : q.n # "key")

C20_OnlyKeyDiffers ==
    \A i \in Invs :
        /\ Len(calls[i]) <= Len(triedIdx[i])
        /\ \A k \in 1..Len(calls[i]) :
              LET c == calls[i][k]
              IN  /\ c.method = req[i].method
                  /\ c.path = req[i].path
                  /\ c.body = req[i].body
                  /\ NonKey(c.search) = NonKey(req[i].search)
                  /\ Cardinality({j \in 1..Len(c.search) :
                                     c.search[j].n = "key"}) = 1
                  /\ \A j \in 1..Len(c.search) :
                        c.search[j].n = "key" =>
                           c.search[j].v = pool[i][triedIdx[i][k] + 1].key

\* a PUT whose query had two key parameters, forwarded twice: with the key
\* of one entry, then of the other
C20_Witness ==
    \E i \in Invs :
        /\ req[i].method = "PUT" /\ req[i].body = "payload"
        /\ Cardinality({j \in 1..Len(req[i].search) :
                           req[i].search[j].n = "key"}) = 2
        /\ Len(calls[i]) = 2
        /\ CallKey(calls[i][1]) # CallKey(calls[i][2])
        /\ Len(calls[i][1].search) = 3

====
